---- MODULE Spec2Model ----
(***************************************************************************)
(* Model of the Private Captcha verification client (src/index.js).        *)
(*                                                                         *)
(* One Client.verify call is a sequence of steps separated by its await    *)
(* points: the call itself (up to the first fetch), the completion of a    *)
(* fetch (response, network failure, abort by the timeout timer) together  *)
(* with everything verify does synchronously afterwards, and the expiry of *)
(* the backoff timer.                                                      *)
(*                                                                         *)
(* Numbers.  JavaScript numbers that are seconds may be fractional         *)
(* (maxBackoffSeconds = 0.1).  The model holds input.maxBackoffSeconds     *)
(* already multiplied by 1000 (field maxBackoffMs), so every delay is an   *)
(* integer number of milliseconds; integer seconds (the default, the       *)
(* parsed Retry-After) are converted with SecondsToMs.                     *)
(*                                                                         *)
(* Optional values.  A JavaScript value that may be undefined/null is a    *)
(* record [defined, value]; retryAfterSeconds (null or a number) is the    *)
(* empty sequence or a one-element sequence.                               *)
(*                                                                         *)
(* Specifications.  Spec: verify calls on a client built with only an      *)
(* apiKey.  SpecConstruct: createClient over the configurations.           *)
(* SpecClient: createClient, then verify, verifyRequest and the middleware *)
(* function.  SpecFunctions: one call of getStatusCode or of               *)
(* verifyCodeToString.  SpecExecutor: what _doVerify does with one         *)
(* response.  SpecConcurrent: several verify calls in flight on one        *)
(* client, interleaved at their await points.  SpecLogger: one verify call *)
(* on a client with or without a logger, the logger returning or throwing  *)
(* at each of its calls.  SpecLive: verify calls with the arrival of a     *)
(* response's headers and the reading of its body as two steps (the other  *)
(* specifications take them as one), under the fairness of the timers.     *)
(***************************************************************************)
EXTENDS Integers, Sequences, FiniteSets, TLC

(* ------------------------------ bounds --------------------------------- *)

\* largest attempt budget a caller passes
MaxAttempts == 7

(* ------------------------- program constants --------------------------- *)

DefaultAttempts == 5
DefaultMaxBackoffSeconds == 10
BaseDelay == 250

retriableStatusCodes == {408, 425, 429, 500, 502, 503, 504}

(* ------------------------------ helpers -------------------------------- *)

Min(a, b) == IF a < b THEN a ELSE b

SecondsToMs(s) == s * 1000

Null == <<>>

Undefined == [defined |-> FALSE, value |-> 0]

Num(n) == [defined |-> TRUE, value |-> n]

\* `x > 0` of JavaScript: false for undefined
GreaterThanZero(x) == x.defined /\ x.value > 0

\* truthiness of a number-or-null (null and 0 are falsy)
Truthy(opt) == opt # Null /\ opt[1] # 0

(* ------------------------------ errors --------------------------------- *)

\* new HTTPError(status): retryAfterSeconds starts as null
HTTPError(status) ==
    [class |-> "HTTPError", statusCode |-> status, retryAfterSeconds |-> Null,
     message |-> "HTTP Error", raisedAt |-> 0]

\* a plain Error (network failure, timeout, JSON syntax error): no status
PlainError(msg) ==
    [class |-> "Error", statusCode |-> 0, retryAfterSeconds |-> Null,
     message |-> msg, raisedAt |-> 0]

NoError == PlainError("none")

SolutionError ==
    [class |-> "SolutionError", originalError |-> NoError, attempt |-> 0]

VerificationError(originalError, n) ==
    [class |-> "VerificationError", originalError |-> originalError, attempt |-> n]

NotThrown == [class |-> "none", originalError |-> NoError, attempt |-> 0]

NoResult == [returned |-> FALSE, success |-> FALSE, code |-> 0]

(* ------------------------------ inputs --------------------------------- *)

\* input.solution: missing, the empty string, a token
Solutions ==
    { [defined |-> FALSE, value |-> <<>>],
      [defined |-> TRUE,  value |-> <<>>],
      [defined |-> TRUE,  value |-> <<"a", "s", "d", "f">>] }

\* input.attempts: missing, zero, a negative number, a positive integer
AttemptsInputs == {Undefined, Num(-1)} \cup {Num(n) : n \in 0..MaxAttempts}

\* input.maxBackoffSeconds times 1000: missing, 0, 0.1 s, 1 s
MaxBackoffInputs == {Undefined, Num(0), Num(100), Num(1000)}

VerifyInputs ==
    [solution : Solutions, attempts : AttemptsInputs, maxBackoffMs : MaxBackoffInputs]

NoInput ==
    [solution |-> [defined |-> FALSE, value |-> <<>>],
     attempts |-> Undefined, maxBackoffMs |-> Undefined]

\* response statuses the server answers with
Statuses == {200, 204, 301, 400, 401, 403, 404, 408, 425, 429, 500, 501, 502, 503, 504}

\* the Retry-After response header: absent, not a number, a number of seconds
NoHeader == [present |-> FALSE, numeric |-> FALSE, value |-> 0]

RetryAfterHeaders ==
    { NoHeader, [present |-> TRUE, numeric |-> FALSE, value |-> 0] }
    \cup { [present |-> TRUE, numeric |-> TRUE, value |-> n] : n \in {0, 1, 5, 20} }

\* the response body: JSON with success and code, or not JSON
NoBody == [json |-> FALSE, success |-> FALSE, code |-> 0]

Bodies ==
    { [json |-> TRUE, success |-> TRUE,  code |-> 0],
      [json |-> TRUE, success |-> TRUE,  code |-> 10],
      [json |-> TRUE, success |-> FALSE, code |-> 4],
      NoBody }

\* the responses the server answers with: every status; a Retry-After header
\* on 429 and on 503; a body on 200
Responses ==
    { [status |-> s, retryAfter |-> NoHeader, body |-> NoBody] : s \in Statuses }
    \cup { [status |-> s, retryAfter |-> h, body |-> NoBody] :
              s \in {429, 503}, h \in RetryAfterHeaders }
    \cup { [status |-> 200, retryAfter |-> h, body |-> b] :
              h \in {NoHeader, [present |-> TRUE, numeric |-> TRUE, value |-> 5]},
              b \in Bodies }

NoResponse ==
    [received |-> FALSE, status |-> 0, retryAfter |-> NoHeader, body |-> NoBody]

(* --------------------------- pure functions ---------------------------- *)

\* mutant: only a missing solution is rejected
SolutionIsEmptyOnlyMissing(solution) == ~solution.defined

\* `!input.solution || input.solution.length === 0`
SolutionIsEmpty(solution) == ~solution.defined \/ Len(solution.value) = 0

ResolveAttempts(input) ==
    IF GreaterThanZero(input.attempts) THEN input.attempts.value ELSE DefaultAttempts

ResolveMaxBackoffMs(input) ==
    IF GreaterThanZero(input.maxBackoffMs)
    THEN input.maxBackoffMs.value
    ELSE SecondsToMs(DefaultMaxBackoffSeconds)

\* mutant: the Retry-After header is read whatever the status
ParseRetryAfterAnyStatus(status, header) ==
    IF header.present /\ header.numeric THEN <<header.value>> ELSE Null

\* the retryAfterSeconds local of _doVerify: read on 429 only, parseInt, NaN dropped
ParseRetryAfter(status, header) ==
    IF status = 429 /\ header.present /\ header.numeric
    THEN <<header.value>>
    ELSE Null

\* the HTTPError thrown for a status >= 300
ResponseError(status, header) ==
    LET retryAfterSeconds == ParseRetryAfter(status, header)
    IN  IF Truthy(retryAfterSeconds)
        THEN [HTTPError(status) EXCEPT !.retryAfterSeconds = retryAfterSeconds]
        ELSE HTTPError(status)

\* mutant: only an HTTPError is retried
shouldRetryHTTPOnly(error) ==
    error.class = "HTTPError" /\ error.statusCode \in retriableStatusCodes

\* mutant: every 5xx status is retried
shouldRetryAny5xx(error) ==
    IF error.class = "HTTPError"
    THEN error.statusCode >= 500 \/ error.statusCode \in {408, 425, 429}
    ELSE TRUE

\* the shouldRetry local of verify's catch block
shouldRetry(error) ==
    IF error.class = "HTTPError"
    THEN error.statusCode \in retriableStatusCodes
    ELSE TRUE

\* mutant: the server's hint always replaces the delay
WaitTimeHintWins(delay, error, maxMs) ==
    IF error.class = "HTTPError" /\ error.statusCode = 429
       /\ Truthy(error.retryAfterSeconds)
    THEN Min(SecondsToMs(error.retryAfterSeconds[1]), maxMs)
    ELSE delay

\* the waitTime local of verify's loop
WaitTime(delay, error, maxMs) ==
    IF error.class = "HTTPError" /\ error.statusCode = 429
       /\ Truthy(error.retryAfterSeconds)
    THEN LET retryAfterMs == Min(SecondsToMs(error.retryAfterSeconds[1]), maxMs)
         IN  IF retryAfterMs > delay THEN retryAfterMs ELSE delay
    ELSE delay

\* `currentDelay = Math.min(currentDelay * 2, maxBackoffSeconds * 1000)`
NextDelay(delay, maxMs) == Min(delay * 2, maxMs)

\* mutant: only the first error of a call is kept
CatchErrorKeepsFirst(previous, error) ==
    IF previous.message = "none" THEN error ELSE previous

\* `lastError = error` in verify's catch block
CatchError(previous, error) == error

\* mutant: `<=` for `<` in the loop condition
BudgetRemainsOffByOne(i, budget) == i + 1 <= budget

\* the loop continues: `attempt++` then `attempt < attempts`
BudgetRemains(i, budget) == i + 1 < budget

\* the third argument of `new VerificationError(...)` at the end of verify
ReportedAttempts(budget, made) == budget

\* a failure after which the retry controller is to go on (spec 4.3): any
\* non-HTTP error, and an HTTPError with one of the seven retriable statuses
RetriableFailure(error) ==
    \/ error.class # "HTTPError"
    \/ error.statusCode \in {408, 425, 429, 500, 502, 503, 504}

(* ----------------------------- constructor ---------------------------- *)

GlobalDomain == "api.privatecaptcha.com"

DefaultFormField == "private-captcha-solution"

DefaultFailedStatusCode == 403

DefaultTimeoutMs == 30000

\* a string-valued property that is not given
NoString == [defined |-> FALSE, value |-> ""]

Str(s) == [defined |-> TRUE, value |-> s]

\* config.apiKey: property absent, undefined, null, or a string
ApiKeys ==
    { [kind |-> "absent", value |-> ""],
      [kind |-> "undefined", value |-> ""],
      [kind |-> "null", value |-> ""],
      [kind |-> "string", value |-> ""],
      [kind |-> "string", value |-> "test-key"] }

\* config.domain
Domains ==
    { NoString, Str(""), Str("example.com"), Str("example.com/"),
      Str("http://example.com"), Str("http://example.com/"),
      Str("https://example.com"), Str("https://example.com/"),
      Str("httpbin.org"), Str("api.eu.privatecaptcha.com") }

CustomFormField == "my-custom-captcha-field"

\* config.formField
FormFields == {NoString, Str(""), Str(CustomFormField)}

\* config.failedStatusCode
FailedStatusCodes == {Undefined, Num(0), Num(400)}

\* config.timeoutMs
TimeoutValues == {Undefined, Num(1000)}

Configurations ==
    [apiKey : ApiKeys, domain : Domains, formField : FormFields,
     failedStatusCode : FailedStatusCodes, timeoutMs : TimeoutValues,
     logger : BOOLEAN]

NoConfiguration ==
    [apiKey |-> [kind |-> "absent", value |-> ""], domain |-> NoString,
     formField |-> NoString, failedStatusCode |-> Undefined,
     timeoutMs |-> Undefined, logger |-> FALSE]

\* createClient({ apiKey: 'test-key' })
DefaultConfiguration ==
    [NoConfiguration EXCEPT !.apiKey = [kind |-> "string", value |-> "test-key"]]

\* the client of a `new Client` that has not run or that threw
NoClient ==
    [constructed |-> FALSE, error |-> "", endpoint |-> "", apiKey |-> "",
     formField |-> "", failedStatusCode |-> 0, timeoutMs |-> 0, logger |-> FALSE]

\* `a || b` for an optional string: undefined and "" are falsy
StringOr(a, b) == IF a.defined /\ a.value # "" THEN a.value ELSE b

\* `a || b` for an optional number: undefined and 0 are falsy
NumberOr(a, b) == IF a.defined /\ a.value # 0 THEN a.value ELSE b

\* mutant: only an undefined apiKey is rejected
ApiKeyIsEmptyOnlyUndefined(apiKey) == apiKey.kind \in {"absent", "undefined"}

\* `!config.apiKey || config.apiKey.length === 0`
ApiKeyIsEmpty(apiKey) == apiKey.kind # "string" \/ Len(apiKey.value) = 0

StartsWith(s, prefix) ==
    Len(s) >= Len(prefix) /\ SubSeq(s, 1, Len(prefix)) = prefix

\* `domain.replace(/^https?:\/\//, '')`
StripScheme(domain) ==
    IF StartsWith(domain, "https://") THEN SubSeq(domain, 9, Len(domain))
    ELSE IF StartsWith(domain, "http://") THEN SubSeq(domain, 8, Len(domain))
    ELSE domain

\* String.prototype.trimEnd takes no argument: it removes trailing white space
RECURSIVE TrimEnd(_)
TrimEnd(s) ==
    IF Len(s) > 0 /\ SubSeq(s, Len(s), Len(s)) = " "
    THEN TrimEnd(SubSeq(s, 1, Len(s) - 1))
    ELSE s

\* the endpoint of the constructor
Endpoint(cfg) ==
    LET given == StringOr(cfg.domain, GlobalDomain)
        domain == IF StartsWith(given, "http") THEN StripScheme(given) ELSE given
    IN  "https://" \o TrimEnd(domain) \o "/verify"

\* `new Client(config)`: the object, or the error thrown
NewClient(cfg) ==
    IF ApiKeyIsEmpty(cfg.apiKey)
    THEN [NoClient EXCEPT !.error = "privatecaptcha: API key is empty"]
    ELSE [constructed |-> TRUE,
          error |-> "",
          endpoint |-> Endpoint(cfg),
          apiKey |-> cfg.apiKey.value,
          formField |-> StringOr(cfg.formField, DefaultFormField),
          failedStatusCode |-> NumberOr(cfg.failedStatusCode, DefaultFailedStatusCode),
          timeoutMs |-> NumberOr(cfg.timeoutMs, DefaultTimeoutMs),
          logger |-> cfg.logger]

(* ------------------------- exported functions -------------------------- *)

\* mutant: the first draft of getStatusCode, without unwrapping
getStatusCodeDirectOnly(error) ==
    IF error.class = "HTTPError"
    THEN <<error.statusCode, TRUE>>
    ELSE <<0, FALSE>>

\* getStatusCode(error): [statusCode, isHTTPError]
getStatusCode(error) ==
    IF error.class = "HTTPError"
    THEN <<error.statusCode, TRUE>>
    ELSE IF error.class = "VerificationError" /\ error.originalError.class = "HTTPError"
         THEN <<error.originalError.statusCode, TRUE>>
         ELSE <<0, FALSE>>

\* mutant: two codes share an identifier
verifyCodeToStringMerged(code) ==
    CASE code = 0 -> ""
      [] code = 1 -> "error-other"
      [] code = 2 -> "solution-duplicates"
      [] code = 3 -> "solution-invalid"
      [] code = 4 -> "solution-bad-format"
      [] code = 5 -> "puzzle-expired"
      [] code = 6 -> "property-invalid"
      [] code = 7 -> "property-owner-mismatch"
      [] code = 8 -> "solution-verified-before"
      [] code = 9 -> "maintenance-mode"
      [] code = 10 -> "property-test"
      [] code = 11 -> "error"
      [] OTHER -> "error"

\* verifyCodeToString(code)
verifyCodeToString(code) ==
    CASE code = 0 -> ""
      [] code = 1 -> "error-other"
      [] code = 2 -> "solution-duplicates"
      [] code = 3 -> "solution-invalid"
      [] code = 4 -> "solution-bad-format"
      [] code = 5 -> "puzzle-expired"
      [] code = 6 -> "property-invalid"
      [] code = 7 -> "property-owner-mismatch"
      [] code = 8 -> "solution-verified-before"
      [] code = 9 -> "maintenance-mode"
      [] code = 10 -> "property-test"
      [] code = 11 -> "integrity-error"
      [] OTHER -> "error"

(* --------------------------- framework adapter ------------------------- *)

\* the value under a field of a parsed body: absent, "", a token
FieldValues ==
    Solutions \cup { [defined |-> TRUE, value |-> <<"q", "w">>] }

FieldNames == {DefaultFormField, CustomFormField}

\* the request objects handed to verifyRequest and to the middleware:
\* undefined, without a parsed body, with a parsed body
NoRequest ==
    [present |-> FALSE, hasBody |-> FALSE,
     body |-> [f \in FieldNames |-> [defined |-> FALSE, value |-> <<>>]]]

Requests ==
    { NoRequest, [NoRequest EXCEPT !.present = TRUE] }
    \cup { [present |-> TRUE, hasBody |-> TRUE, body |-> b] :
              b \in [FieldNames -> FieldValues] }

\* mutant: the solution is always read from the default field
FormValueFromDefaultField(request, field) == request.body[DefaultFormField]

\* `req.body[this.formField]`
FormValue(request, field) == request.body[field]

\* mutant: success is not looked at
ProceedsAlways(output) == TRUE

\* the middleware goes on to next(): `if (!output.success) return ...; next()`
Proceeds(output) == output.success

\* mutant: only a SolutionError is caught
CaughtOnlySolutionError(error) == error.class = "SolutionError"

\* the middleware's `catch (error)` catches whatever is thrown
Caught(error) == TRUE

\* `req.body && req.body[this.formField]`
HasSolution(request, field) ==
    /\ request.hasBody
    /\ request.body[field].defined
    /\ request.body[field].value # <<>>

\* the SolutionError of verifyRequest
FieldNotFound(field) ==
    [class |-> "SolutionError", originalError |-> NoError, attempt |-> 0,
     field |-> field]

\* the TypeError of reading `req.body` of undefined
NotAnObject ==
    [class |-> "TypeError", originalError |-> NoError, attempt |-> 0]

\* the error a next() that throws raises
DownstreamError ==
    [class |-> "Error", originalError |-> PlainError("downstream"), attempt |-> 0]

\* error.message
ErrorMessage(error) ==
    CASE error.class = "VerificationError" ->
            [text |-> "Verification failed after N attempts: ", n |-> error.attempt,
             cause |-> error.originalError.message,
             status |-> error.originalError.statusCode, field |-> ""]
      [] error.class = "SolutionError" /\ "field" \in DOMAIN error ->
            [text |-> "Captcha solution not found in field", n |-> 0,
             cause |-> "", status |-> 0, field |-> error.field]
      [] error.class = "SolutionError" /\ "field" \notin DOMAIN error ->
            [text |-> "privatecaptcha: solution is empty", n |-> 0,
             cause |-> "", status |-> 0, field |-> ""]
      [] error.class = "TypeError" ->
            [text |-> "Cannot read properties of undefined", n |-> 0,
             cause |-> "", status |-> 0, field |-> ""]
      [] OTHER ->
            [text |-> error.originalError.message, n |-> 0,
             cause |-> "", status |-> 0, field |-> ""]

NoMessage == [text |-> "", n |-> 0, cause |-> "", status |-> 0, field |-> ""]

\* no response sent through `res`
NoReply == [sent |-> 0, status |-> 0, prefix |-> "", code |-> "", message |-> NoMessage]

\* `res.status(status).send(prefix + ...)`
Reply(previous, status, prefix, code, message) ==
    [sent |-> previous.sent + 1, status |-> status, prefix |-> prefix,
     code |-> code, message |-> message]

NoMiddleware == [state |-> "none", nextThrows |-> FALSE]

\* the configurations of the clients the adapter is exercised with: the
\* default one, one that sets every property, one without a key, one whose
\* formField and failedStatusCode are falsy
ClientConfigurations ==
    { DefaultConfiguration,
      [apiKey |-> [kind |-> "string", value |-> "test-key"],
       domain |-> Str("http://example.com/"),
       formField |-> Str(CustomFormField),
       failedStatusCode |-> Num(400),
       timeoutMs |-> Num(1000),
       logger |-> TRUE],
      [NoConfiguration EXCEPT !.apiKey = [kind |-> "string", value |-> ""]],
      [DefaultConfiguration EXCEPT !.formField = Str(""),
                                   !.failedStatusCode = Num(0)] }

\* the inputs of the verify calls made beside the adapter
ClientVerifyInputs ==
    { [solution |-> s, attempts |-> a, maxBackoffMs |-> Undefined] :
        s \in Solutions, a \in {Undefined, Num(2)} }

\* the responses the server gives to the adapter's requests
AdapterResponses ==
    { [status |-> 200, retryAfter |-> NoHeader, body |-> b] :
        b \in { [json |-> TRUE, success |-> TRUE,  code |-> 0],
                [json |-> TRUE, success |-> FALSE, code |-> 4],
                [json |-> TRUE, success |-> FALSE, code |-> 12],
                NoBody } }
    \cup { [status |-> s, retryAfter |-> NoHeader, body |-> NoBody] : s \in {400, 503} }

(* ------------------- calls of the exported functions ------------------- *)

\* largest code handed to verifyCodeToString
MaxCode == 14

Codes == (-2)..MaxCode

\* the errors one attempt ends with
LeafErrors ==
    { HTTPError(s) : s \in Statuses }
    \cup { PlainError(m) : m \in {"fetch failed", "Request timeout", "SyntaxError"} }

\* the errors the client throws, and a VerificationError wrapped a second time
ThrownErrors ==
    { SolutionError }
    \cup { VerificationError(e, n) : e \in LeafErrors, n \in {1, 5} }
    \cup { VerificationError(VerificationError(HTTPError(500), 5), 1) }

NoFunctionCall == [fn |-> "none", error |-> NoError, code |-> 0]

FunctionCalls ==
    { [fn |-> "getStatusCode", error |-> e, code |-> 0] :
        e \in LeafErrors \cup ThrownErrors }
    \cup { [fn |-> "verifyCodeToString", error |-> NoError, code |-> c] : c \in Codes }

NoFunctionResult ==
    [returned |-> FALSE, statusCode |-> 0, isHTTPError |-> FALSE, text |-> ""]

(* --------------------------- concurrent calls -------------------------- *)

\* number of verify calls in flight on one client
MaxCalls == 2

Calls == 1..MaxCalls

\* mutant: the retry state is kept on the client, one copy for every call
SlotShared(c) == 1

\* the locals of verify (`let attempts`, `let currentDelay`, `let lastError`,
\* `let attempt`) are bindings of the invocation: call c has its own
Slot(c) == c

\* the locals of one verify invocation
NoFrame ==
    [pc |-> "idle", input |-> NoInput, attempts |-> DefaultAttempts,
     maxBackoffMs |-> SecondsToMs(DefaultMaxBackoffSeconds), attempt |-> 0,
     currentDelay |-> BaseDelay, lastError |-> NoError, timeoutArmed |-> FALSE,
     requests |-> 0, result |-> NoResult, thrown |-> NotThrown, waits |-> <<>>]

\* verify(input) up to the first await
Entered(in) ==
    IF SolutionIsEmpty(in.solution)
    THEN [NoFrame EXCEPT !.pc = "done", !.input = in, !.thrown = SolutionError]
    ELSE [NoFrame EXCEPT !.pc = "fetch", !.input = in,
                         !.attempts = ResolveAttempts(in),
                         !.maxBackoffMs = ResolveMaxBackoffMs(in),
                         !.timeoutArmed = TRUE, !.requests = 1]

\* _doVerify threw: the catch block, then the next wait or the final throw
Failed(f, error) ==
    LET e == [error EXCEPT !.raisedAt = f.requests]
        last == CatchError(f.lastError, e)
    IN  IF shouldRetry(e) /\ BudgetRemains(f.attempt, f.attempts)
        THEN [f EXCEPT !.lastError = last, !.timeoutArmed = FALSE,
                       !.attempt = f.attempt + 1,
                       !.waits = Append(f.waits,
                                        WaitTime(f.currentDelay, last, f.maxBackoffMs)),
                       !.pc = "backoff"]
        ELSE [f EXCEPT !.lastError = last, !.timeoutArmed = FALSE,
                       !.attempt = IF shouldRetry(e) THEN f.attempt + 1 ELSE f.attempt,
                       !.thrown = VerificationError(
                                      last, ReportedAttempts(f.attempts, f.requests)),
                       !.pc = "done"]

\* _doVerify returned a VerifyOutput
Returned(f, body) ==
    [f EXCEPT !.timeoutArmed = FALSE,
              !.result = [returned |-> TRUE, success |-> body.success,
                          code |-> body.code],
              !.pc = "done"]

\* the response to the request in flight arrived
Answered(f, response) ==
    IF response.status >= 300
    THEN Failed(f, ResponseError(response.status, response.retryAfter))
    ELSE IF response.body.json
         THEN Returned(f, response.body)
         ELSE Failed(f, PlainError("SyntaxError"))

\* the backoff timer fired: double the delay, send the next request
Resumed(f) ==
    [f EXCEPT !.currentDelay = NextDelay(f.currentDelay, f.maxBackoffMs),
              !.timeoutArmed = TRUE, !.requests = f.requests + 1, !.pc = "fetch"]

\* what happens to one call: it is made, its request is answered, fails or
\* times out, its backoff timer fires
NoResponseGiven == [status |-> 0, retryAfter |-> NoHeader, body |-> NoBody]

Event(kind, in, response) == [kind |-> kind, input |-> in, response |-> response]

Apply(f, event) ==
    CASE event.kind = "call" -> Entered(event.input)
      [] event.kind = "response" -> Answered(f, event.response)
      [] event.kind = "network" -> Failed(f, PlainError("fetch failed"))
      [] event.kind = "timeout" -> Failed(f, PlainError("Request timeout"))
      [] OTHER -> Resumed(f)

\* the inputs of the concurrent calls
ConcurrentInputs ==
    { [solution |-> s, attempts |-> Num(n), maxBackoffMs |-> Undefined] :
        s \in { [defined |-> TRUE, value |-> <<>>],
                [defined |-> TRUE, value |-> <<"a", "s", "d", "f">>] },
        n \in {1, 2} }

\* the responses to their requests
ConcurrentResponses ==
    { [status |-> 200, retryAfter |-> NoHeader,
       body |-> [json |-> TRUE, success |-> TRUE, code |-> 0]],
      [status |-> 400, retryAfter |-> NoHeader, body |-> NoBody],
      [status |-> 429, retryAfter |-> [present |-> TRUE, numeric |-> TRUE, value |-> 5],
       body |-> NoBody],
      [status |-> 503, retryAfter |-> NoHeader, body |-> NoBody] }

(* ------------------------------- state --------------------------------- *)

VARIABLES
    pc,             \* "idle", "fetch" (request in flight), "body", "backoff", "done"
    input,          \* the VerifyInput of the current call
    attempts,       \* verify's local `attempts`
    maxBackoffMs,   \* verify's local `maxBackoffSeconds`, times 1000
    attempt,        \* the loop variable
    currentDelay,   \* verify's local `currentDelay`
    lastError,      \* verify's local `lastError`
    timeoutArmed,   \* the timeout timer of the attempt in flight is pending
    requests,       \* number of fetch calls of the current call
    waits,          \* the delays of the backoff timers of the current call
    failures,       \* number of attempts of the current call that failed
    retriable,      \* ... of which with a RetriableFailure
    hinted,         \* some failure of the current call carried retryAfterSeconds
    received,       \* the response to the last request sent, once it has arrived
    result,         \* the VerifyOutput the call returned
    thrown,         \* the error the call threw
    config,         \* the argument of the last createClient
    client,         \* the Client it produced
    entry,          \* how the current call was entered: verify, verifyRequest, middleware
    req,            \* the request object of the current call
    res,            \* what the middleware sent through `res`
    nextCalls,      \* how often the middleware called next()
    mw,             \* the promise of the middleware function, and whether next() throws
    fnCall,         \* the call of a function on its own: its name and argument
    fnResult,       \* what that call returned
    frames,         \* the locals of each of the concurrent verify calls
    traces          \* what has happened to each of them, in order

callVars == <<pc, input, attempts, maxBackoffMs, attempt, currentDelay, lastError,
              timeoutArmed, requests, waits, failures, retriable, hinted, received,
              result, thrown>>

clientVars == <<config, client>>

adapterVars == <<entry, req, res, nextCalls, mw>>

libVars == <<fnCall, fnResult>>

concVars == <<frames, traces>>

vars == <<callVars, clientVars, adapterVars, libVars, concVars>>

Init ==
    /\ pc = "idle"
    /\ input = NoInput
    /\ attempts = DefaultAttempts
    /\ maxBackoffMs = SecondsToMs(DefaultMaxBackoffSeconds)
    /\ attempt = 0
    /\ currentDelay = BaseDelay
    /\ lastError = NoError
    /\ timeoutArmed = FALSE
    /\ requests = 0
    /\ waits = <<>>
    /\ failures = 0
    /\ retriable = 0
    /\ hinted = FALSE
    /\ received = NoResponse
    /\ result = NoResult
    /\ thrown = NotThrown
    /\ config = DefaultConfiguration
    /\ client = NewClient(DefaultConfiguration)
    /\ entry = "none"
    /\ req = NoRequest
    /\ res = NoReply
    /\ nextCalls = 0
    /\ mw = NoMiddleware
    /\ fnCall = NoFunctionCall
    /\ fnResult = NoFunctionResult
    /\ frames = [c \in Calls |-> NoFrame]
    /\ traces = [c \in Calls |-> <<>>]

(* ------------------------------ actions -------------------------------- *)

\* _doVerify up to `await fetch(...)`: arm the timeout timer, send the request
SendRequest ==
    /\ timeoutArmed' = TRUE
    /\ requests' = requests + 1
    /\ received' = NoResponse
    /\ pc' = "fetch"

\* Client.verify(input), up to the first await
Verify(in) ==
    /\ pc = "idle"
    /\ input' = in
    /\ lastError' = NoError
    /\ waits' = <<>>
    /\ failures' = 0
    /\ retriable' = 0
    /\ hinted' = FALSE
    /\ received' = NoResponse
    /\ result' = NoResult
    /\ attempt' = 0
    /\ currentDelay' = BaseDelay
    /\ IF SolutionIsEmpty(in.solution)
       THEN /\ thrown' = SolutionError
            /\ pc' = "done"
            /\ requests' = 0
            /\ timeoutArmed' = FALSE
            /\ UNCHANGED <<attempts, maxBackoffMs>>
       ELSE /\ thrown' = NotThrown
            /\ attempts' = ResolveAttempts(in)
            /\ maxBackoffMs' = ResolveMaxBackoffMs(in)
            /\ timeoutArmed' = TRUE
            /\ requests' = 1
            /\ pc' = "fetch"

\* _doVerify threw `error`: verify's catch block, then the loop head of the
\* next iteration up to its `await new Promise(setTimeout)`, or the final throw
Fail(error) ==
    LET e == [error EXCEPT !.raisedAt = requests]
    IN  /\ lastError' = CatchError(lastError, e)
        /\ failures' = failures + 1
        /\ retriable' = IF RetriableFailure(e) THEN retriable + 1 ELSE retriable
        /\ hinted' = (hinted \/ e.retryAfterSeconds # Null)
        /\ IF shouldRetry(e) /\ BudgetRemains(attempt, attempts)
           THEN /\ attempt' = attempt + 1
                /\ waits' = Append(waits, WaitTime(currentDelay, lastError', maxBackoffMs))
                /\ pc' = "backoff"
                /\ UNCHANGED thrown
           ELSE /\ attempt' = IF shouldRetry(e) THEN attempt + 1 ELSE attempt
                /\ thrown' = VerificationError(lastError', ReportedAttempts(attempts, requests))
                /\ pc' = "done"
                /\ UNCHANGED waits
        /\ UNCHANGED <<input, attempts, maxBackoffMs, currentDelay, requests, result>>

\* mutant: an output with success = false is thrown and retried
SucceedOnlyIfVerified(body) ==
    IF body.success
    THEN /\ result' = [returned |-> TRUE, success |-> body.success, code |-> body.code]
         /\ pc' = "done"
         /\ UNCHANGED <<input, attempts, maxBackoffMs, attempt, currentDelay, lastError,
                        requests, waits, failures, retriable, hinted, thrown>>
    ELSE Fail(PlainError("verification failed"))

\* _doVerify returned a VerifyOutput: verify returns it
Succeed(body) ==
    /\ result' = [returned |-> TRUE, success |-> body.success, code |-> body.code]
    /\ pc' = "done"
    /\ UNCHANGED <<input, attempts, maxBackoffMs, attempt, currentDelay, lastError,
                   requests, waits, failures, retriable, hinted, thrown>>

\* mutant: a 2xx body that does not parse is returned as a failed verification
RespondUnparsedIsOutput(response) ==
    /\ pc = "fetch"
    /\ timeoutArmed' = FALSE
    /\ received' = [received |-> TRUE, status |-> response.status,
                    retryAfter |-> response.retryAfter, body |-> response.body]
    /\ UNCHANGED <<clientVars, adapterVars, libVars, concVars>>
    /\ IF response.status >= 300
       THEN Fail(ResponseError(response.status, response.retryAfter))
       ELSE Succeed(response.body)

\* the response headers arrive before the timeout
Respond(response) ==
    /\ pc = "fetch"
    /\ timeoutArmed' = FALSE
    /\ received' = [received |-> TRUE, status |-> response.status,
                    retryAfter |-> response.retryAfter, body |-> response.body]
    /\ UNCHANGED <<clientVars, adapterVars, libVars, concVars>>
    /\ IF response.status >= 300
       THEN Fail(ResponseError(response.status, response.retryAfter))
       ELSE IF response.body.json
            THEN Succeed(response.body)
            ELSE Fail(PlainError("SyntaxError"))

\* mutant: the catch block of _doVerify leaves the timeout timer pending
NetworkFailureKeepsTimer ==
    /\ pc = "fetch"
    /\ UNCHANGED timeoutArmed
    /\ UNCHANGED <<clientVars, adapterVars, libVars, concVars>>
    /\ UNCHANGED received
    /\ Fail(PlainError("fetch failed"))

\* fetch rejects: DNS failure, connection refused, ...
NetworkFailure ==
    /\ pc = "fetch"
    /\ timeoutArmed' = FALSE
    /\ UNCHANGED <<clientVars, adapterVars, libVars, concVars>>
    /\ UNCHANGED received
    /\ Fail(PlainError("fetch failed"))

\* the timeout timer fires: the request is aborted, fetch rejects with AbortError
Timeout ==
    /\ pc = "fetch"
    /\ timeoutArmed
    /\ timeoutArmed' = FALSE
    /\ UNCHANGED <<clientVars, adapterVars, libVars, concVars>>
    /\ UNCHANGED received
    /\ Fail(PlainError("Request timeout"))

\* mutant: the next delay is the double of the wait that was performed
BackoffElapsedDoublesWait ==
    /\ pc = "backoff"
    /\ currentDelay' = NextDelay(waits[Len(waits)], maxBackoffMs)
    /\ UNCHANGED <<clientVars, adapterVars, libVars, concVars>>
    /\ SendRequest
    /\ UNCHANGED <<input, attempts, maxBackoffMs, attempt, lastError, waits,
                   failures, retriable, hinted, result, thrown>>

\* the backoff timer fires: double the delay, send the next request
BackoffElapsed ==
    /\ pc = "backoff"
    /\ currentDelay' = NextDelay(currentDelay, maxBackoffMs)
    /\ UNCHANGED <<clientVars, adapterVars, libVars, concVars>>
    /\ SendRequest
    /\ UNCHANGED <<input, attempts, maxBackoffMs, attempt, lastError, waits,
                   failures, retriable, hinted, result, thrown>>

\* the caller has observed the settled promise; the frame of the call is gone
Settle ==
    /\ pc = "done"
    /\ mw.state # "pending"
    /\ pc' = "idle"
    /\ input' = NoInput
    /\ attempts' = DefaultAttempts
    /\ maxBackoffMs' = SecondsToMs(DefaultMaxBackoffSeconds)
    /\ attempt' = 0
    /\ currentDelay' = BaseDelay
    /\ lastError' = NoError
    /\ requests' = 0
    /\ waits' = <<>>
    /\ failures' = 0
    /\ retriable' = 0
    /\ hinted' = FALSE
    /\ received' = NoResponse
    /\ result' = NoResult
    /\ thrown' = NotThrown
    /\ entry' = "none"
    /\ req' = NoRequest
    /\ res' = NoReply
    /\ nextCalls' = 0
    /\ mw' = NoMiddleware
    /\ UNCHANGED <<timeoutArmed, clientVars, libVars, concVars>>

\* client.verify(input) called by the application
CallVerify(in) ==
    /\ client.constructed
    /\ Verify(in)
    /\ entry' = "verify"
    /\ UNCHANGED <<req, res, nextCalls, mw, clientVars, libVars, concVars>>

Next ==
    \/ \E in \in VerifyInputs : CallVerify(in)
    \/ \E response \in Responses : Respond(response)
    \/ NetworkFailure
    \/ Timeout
    \/ BackoffElapsed
    \/ Settle

Spec == Init /\ [][Next]_vars

(* ------------------------ client construction -------------------------- *)

\* createClient(config): `new Client(config)`
Construct(cfg) ==
    /\ pc = "idle"
    /\ ~client.constructed
    /\ config' = cfg
    /\ client' = NewClient(cfg)
    /\ UNCHANGED <<callVars, adapterVars, libVars, concVars>>

\* no client has been constructed and nothing has been called
Unstarted ==
    /\ pc = "idle"
    /\ input = NoInput
    /\ attempts = DefaultAttempts
    /\ maxBackoffMs = SecondsToMs(DefaultMaxBackoffSeconds)
    /\ attempt = 0
    /\ currentDelay = BaseDelay
    /\ lastError = NoError
    /\ timeoutArmed = FALSE
    /\ requests = 0
    /\ waits = <<>>
    /\ failures = 0
    /\ retriable = 0
    /\ hinted = FALSE
    /\ received = NoResponse
    /\ result = NoResult
    /\ thrown = NotThrown
    /\ config = NoConfiguration
    /\ client = NoClient
    /\ entry = "none"
    /\ req = NoRequest
    /\ res = NoReply
    /\ nextCalls = 0
    /\ mw = NoMiddleware
    /\ fnResult = NoFunctionResult
    /\ frames = [c \in Calls |-> NoFrame]
    /\ traces = [c \in Calls |-> <<>>]

\* no client has been constructed yet
InitNew ==
    /\ Unstarted
    /\ fnCall = NoFunctionCall

NextConstruct == \E cfg \in Configurations : Construct(cfg)

SpecConstruct == InitNew /\ [][NextConstruct]_vars

(* ------------------- verifyRequest and the middleware ------------------ *)

\* a call that throws before it sends a request
Reject(error) ==
    /\ input' = NoInput
    /\ lastError' = NoError
    /\ waits' = <<>>
    /\ failures' = 0
    /\ retriable' = 0
    /\ hinted' = FALSE
    /\ received' = NoResponse
    /\ result' = NoResult
    /\ attempt' = 0
    /\ currentDelay' = BaseDelay
    /\ thrown' = error
    /\ requests' = 0
    /\ pc' = "done"
    /\ UNCHANGED <<attempts, maxBackoffMs, timeoutArmed>>

\* verifyRequest(req) up to its first await: read the field, call verify
ReadSolution(request) ==
    IF ~request.present
    THEN Reject(NotAnObject)
    ELSE IF HasSolution(request, client.formField)
         THEN Verify([solution |-> FormValue(request, client.formField),
                      attempts |-> Undefined, maxBackoffMs |-> Undefined])
         ELSE Reject(FieldNotFound(client.formField))

\* mutant: verifyRequest remembers on the client the field it read
VerifyRequestRemembersField(request) ==
    /\ pc = "idle"
    /\ client.constructed
    /\ ReadSolution(request)
    /\ entry' = "verifyRequest"
    /\ req' = request
    /\ client' = [client EXCEPT !.formField = DefaultFormField]
    /\ UNCHANGED <<res, nextCalls, mw, config, libVars, concVars>>

\* client.verifyRequest(req) called by the application
VerifyRequest(request) ==
    /\ pc = "idle"
    /\ client.constructed
    /\ ReadSolution(request)
    /\ entry' = "verifyRequest"
    /\ req' = request
    /\ UNCHANGED <<res, nextCalls, mw, clientVars, libVars, concVars>>

\* the host framework calls the function middleware() returned: it runs up
\* to `await this.verifyRequest(req)`
Middleware(request, nextThrows) ==
    /\ pc = "idle"
    /\ client.constructed
    /\ ReadSolution(request)
    /\ entry' = "middleware"
    /\ req' = request
    /\ mw' = [state |-> "pending", nextThrows |-> nextThrows]
    /\ UNCHANGED <<res, nextCalls, clientVars, libVars, concVars>>

\* the middleware's catch block
CatchBlock(error) ==
    IF Caught(error)
    THEN /\ res' = Reply(res, client.failedStatusCode, "Captcha verification error: ",
                         "", ErrorMessage(error))
         /\ mw' = [mw EXCEPT !.state = "fulfilled"]
    ELSE /\ mw' = [mw EXCEPT !.state = "rejected"]
         /\ UNCHANGED res

\* the middleware resumes after `await this.verifyRequest(req)`
MiddlewareResume ==
    /\ pc = "done"
    /\ mw.state = "pending"
    /\ IF result.returned
       THEN IF Proceeds(result)
            THEN /\ nextCalls' = nextCalls + 1
                 /\ IF mw.nextThrows
                    THEN CatchBlock(DownstreamError)
                    ELSE /\ mw' = [mw EXCEPT !.state = "fulfilled"]
                         /\ UNCHANGED res
            ELSE /\ res' = Reply(res, client.failedStatusCode,
                                 "Captcha verification failed: ",
                                 verifyCodeToString(result.code), NoMessage)
                 /\ mw' = [mw EXCEPT !.state = "fulfilled"]
                 /\ UNCHANGED nextCalls
       ELSE /\ CatchBlock(thrown)
            /\ UNCHANGED nextCalls
    /\ UNCHANGED <<callVars, clientVars, entry, req, libVars, concVars>>

NextClient ==
    \/ \E cfg \in ClientConfigurations : Construct(cfg)
    \/ \E in \in ClientVerifyInputs : CallVerify(in)
    \/ \E request \in Requests : VerifyRequest(request)
    \/ \E request \in Requests, nextThrows \in BOOLEAN : Middleware(request, nextThrows)
    \/ \E response \in AdapterResponses : Respond(response)
    \/ NetworkFailure
    \/ Timeout
    \/ BackoffElapsed
    \/ MiddlewareResume
    \/ Settle

SpecClient == InitNew /\ [][NextClient]_vars

(* ------------------- calls of the exported functions ------------------- *)

\* one exported function is about to be called with one argument
InitFunctions ==
    /\ Unstarted
    /\ fnCall \in FunctionCalls

CallGetStatusCode ==
    /\ fnCall.fn = "getStatusCode"
    /\ ~fnResult.returned
    /\ LET r == getStatusCode(fnCall.error)
       IN  fnResult' = [returned |-> TRUE, statusCode |-> r[1], isHTTPError |-> r[2],
                        text |-> ""]
    /\ UNCHANGED <<callVars, clientVars, adapterVars, concVars, fnCall>>

CallVerifyCodeToString ==
    /\ fnCall.fn = "verifyCodeToString"
    /\ ~fnResult.returned
    /\ fnResult' = [returned |-> TRUE, statusCode |-> 0, isHTTPError |-> FALSE,
                    text |-> verifyCodeToString(fnCall.code)]
    /\ UNCHANGED <<callVars, clientVars, adapterVars, concVars, fnCall>>

NextFunctions ==
    \/ CallGetStatusCode
    \/ CallVerifyCodeToString

SpecFunctions == InitFunctions /\ [][NextFunctions]_vars

(* ---------------------- one attempt of the executor -------------------- *)

\* the X-Trace-ID response header: absent, or an identifier
TraceHeaders == {NoString, Str("trace-1")}

\* _doVerify is about to get the response to its request
ExecutorCalls ==
    { [fn |-> "_doVerify", response |-> r, traceID |-> t] :
        r \in Responses, t \in TraceHeaders }

NoOutput == [success |-> FALSE, code |-> 0, requestID |-> ""]

\* `object.name`: undefined for a property that was never set
Property(object, name) ==
    IF name \in DOMAIN object THEN <<object[name]>> ELSE Null

\* mutant: only a status >= 400 is an error
DoVerifyErrorsFrom400(response, traceID) ==
    IF response.status >= 400
    THEN [threw |-> TRUE, output |-> NoOutput,
          error |-> ResponseError(response.status, response.retryAfter)]
    ELSE IF response.body.json
         THEN [threw |-> FALSE, error |-> NoError,
               output |-> [success |-> response.body.success,
                           code |-> response.body.code,
                           requestID |-> StringOr(traceID, "")]]
         ELSE [threw |-> TRUE, output |-> NoOutput, error |-> PlainError("SyntaxError")]

\* what _doVerify does with a response: throw the HTTPError for a status
\* >= 300, otherwise read X-Trace-ID, parse the body and return the output
DoVerify(response, traceID) ==
    IF response.status >= 300
    THEN [threw |-> TRUE, output |-> NoOutput,
          error |-> ResponseError(response.status, response.retryAfter)]
    ELSE IF response.body.json
         THEN [threw |-> FALSE, error |-> NoError,
               output |-> [success |-> response.body.success,
                           code |-> response.body.code,
                           requestID |-> StringOr(traceID, "")]]
         ELSE [threw |-> TRUE, output |-> NoOutput, error |-> PlainError("SyntaxError")]

InitExecutor ==
    /\ Unstarted
    /\ fnCall \in ExecutorCalls

CallDoVerify ==
    /\ fnCall.fn = "_doVerify"
    /\ ~fnResult.returned
    /\ LET r == DoVerify(fnCall.response, fnCall.traceID)
       IN  fnResult' = [returned |-> TRUE, threw |-> r.threw, error |-> r.error,
                        output |-> r.output]
    /\ UNCHANGED <<callVars, clientVars, adapterVars, concVars, fnCall>>

NextExecutor == CallDoVerify

SpecExecutor == InitExecutor /\ [][NextExecutor]_vars

(* --------------------------- concurrent calls -------------------------- *)

\* `event` happens to call c: its locals change, nothing else does
Happens(c, event) ==
    /\ frames' = [frames EXCEPT ![Slot(c)] = Apply(frames[Slot(c)], event)]
    /\ traces' = [traces EXCEPT ![c] = Append(traces[c], event)]
    /\ UNCHANGED <<callVars, clientVars, adapterVars, libVars>>

ConcurrentVerify(c, in) ==
    /\ client.constructed
    /\ frames[Slot(c)].pc = "idle"
    /\ Happens(c, Event("call", in, NoResponseGiven))

ConcurrentRespond(c, response) ==
    /\ frames[Slot(c)].pc = "fetch"
    /\ Happens(c, Event("response", NoInput, response))

ConcurrentNetworkFailure(c) ==
    /\ frames[Slot(c)].pc = "fetch"
    /\ Happens(c, Event("network", NoInput, NoResponseGiven))

ConcurrentTimeout(c) ==
    /\ frames[Slot(c)].pc = "fetch"
    /\ frames[Slot(c)].timeoutArmed
    /\ Happens(c, Event("timeout", NoInput, NoResponseGiven))

ConcurrentBackoffElapsed(c) ==
    /\ frames[Slot(c)].pc = "backoff"
    /\ Happens(c, Event("elapsed", NoInput, NoResponseGiven))

NextConcurrent ==
    \E c \in Calls :
        \/ \E in \in ConcurrentInputs : ConcurrentVerify(c, in)
        \/ \E response \in ConcurrentResponses : ConcurrentRespond(c, response)
        \/ ConcurrentNetworkFailure(c)
        \/ ConcurrentTimeout(c)
        \/ ConcurrentBackoffElapsed(c)

SpecConcurrent == Init /\ [][NextConcurrent]_vars

(* ------------------------------ the logger ----------------------------- *)

\* the calls of this._log: in verify before the loop ("start"), in _doVerify
\* after fetch ("finished") and on a 429 ("rateLimited"), in verify after
\* _doVerify returned ("success"), in its catch block ("failed") and after
\* the loop ("exhausted")
LogSites == {"start", "finished", "rateLimited", "success", "failed", "exhausted"}

\* what a logger throws
LoggerError == PlainError("logger")

\* an error that leaves verify as it is, not wrapped
Rethrown(error) == [class |-> "Error", originalError |-> error, attempt |-> 0]

\* `this._log(...)` at `site` throws: a logger is configured, and it is
\* called and throws there
LogThrows(logger, throwing, site) == logger /\ site \in throwing

\* verify(input) up to the first await
EnteredLogged(in, logger, throwing) ==
    IF ~SolutionIsEmpty(in.solution) /\ LogThrows(logger, throwing, "start")
    THEN [NoFrame EXCEPT !.pc = "done", !.input = in,
                         !.attempts = ResolveAttempts(in),
                         !.maxBackoffMs = ResolveMaxBackoffMs(in),
                         !.thrown = Rethrown(LoggerError)]
    ELSE Entered(in)

\* _doVerify threw: the catch block of verify logs first, and the log after
\* the loop comes before the final throw
FailedLogged(f, error, logger, throwing) ==
    LET e == [error EXCEPT !.raisedAt = f.requests]
    IN  IF LogThrows(logger, throwing, "failed")
        THEN [f EXCEPT !.lastError = CatchError(f.lastError, e),
                       !.timeoutArmed = FALSE,
                       !.thrown = Rethrown(LoggerError), !.pc = "done"]
        ELSE IF ~(shouldRetry(e) /\ BudgetRemains(f.attempt, f.attempts))
                /\ LogThrows(logger, throwing, "exhausted")
             THEN [Failed(f, error) EXCEPT !.thrown = Rethrown(LoggerError)]
             ELSE Failed(f, error)

\* the response to the request in flight arrived: the logs of _doVerify are
\* inside its try block, the log after `await this._doVerify` is inside the
\* try block of verify
AnsweredLogged(f, response, logger, throwing) ==
    IF \/ LogThrows(logger, throwing, "finished")
       \/ response.status = 429 /\ LogThrows(logger, throwing, "rateLimited")
    THEN FailedLogged(f, LoggerError, logger, throwing)
    ELSE IF response.status >= 300
         THEN FailedLogged(f, ResponseError(response.status, response.retryAfter),
                           logger, throwing)
         ELSE IF response.body.json
              THEN IF LogThrows(logger, throwing, "success")
                   THEN FailedLogged(f, LoggerError, logger, throwing)
                   ELSE Returned(f, response.body)
              ELSE FailedLogged(f, PlainError("SyntaxError"), logger, throwing)

ApplyLogged(f, event, logger, throwing) ==
    CASE event.kind = "call" -> EnteredLogged(event.input, logger, throwing)
      [] event.kind = "response" -> AnsweredLogged(f, event.response, logger, throwing)
      [] event.kind = "network" ->
            FailedLogged(f, PlainError("fetch failed"), logger, throwing)
      [] event.kind = "timeout" ->
            FailedLogged(f, PlainError("Request timeout"), logger, throwing)
      [] OTHER -> Resumed(f)

\* createClient({ apiKey }) and createClient({ apiKey, logger })
LoggerConfigurations ==
    { DefaultConfiguration, [DefaultConfiguration EXCEPT !.logger = TRUE] }

\* `event` happens to the call; the logger, when there is one, throws at the
\* calls in `throwing` and returns at the others
Logged(event, throwing) ==
    /\ frames' = [frames EXCEPT ![1] = ApplyLogged(frames[1], event, client.logger,
                                                   throwing)]
    /\ traces' = [traces EXCEPT ![1] = Append(traces[1], event)]
    /\ UNCHANGED <<callVars, clientVars, adapterVars, libVars>>

LoggedVerify(in, throwing) ==
    /\ client.constructed
    /\ frames[1].pc = "idle"
    /\ Logged(Event("call", in, NoResponseGiven), throwing)

LoggedRespond(response, throwing) ==
    /\ frames[1].pc = "fetch"
    /\ Logged(Event("response", NoInput, response), throwing)

LoggedNetworkFailure(throwing) ==
    /\ frames[1].pc = "fetch"
    /\ Logged(Event("network", NoInput, NoResponseGiven), throwing)

LoggedTimeout(throwing) ==
    /\ frames[1].pc = "fetch"
    /\ frames[1].timeoutArmed
    /\ Logged(Event("timeout", NoInput, NoResponseGiven), throwing)

LoggedBackoffElapsed ==
    /\ frames[1].pc = "backoff"
    /\ Logged(Event("elapsed", NoInput, NoResponseGiven), {})

NextLogger ==
    \/ \E cfg \in LoggerConfigurations : Construct(cfg)
    \/ \E throwing \in SUBSET LogSites :
          \/ \E in \in ConcurrentInputs : LoggedVerify(in, throwing)
          \/ \E response \in ConcurrentResponses : LoggedRespond(response, throwing)
          \/ LoggedNetworkFailure(throwing)
          \/ LoggedTimeout(throwing)
    \/ LoggedBackoffElapsed

SpecLogger == InitNew /\ [][NextLogger]_vars

(* ------------------------------ termination ---------------------------- *)

\* the inputs of the calls whose termination is looked at
LiveInputs ==
    [solution : Solutions, attempts : {Undefined, Num(1), Num(3)},
     maxBackoffMs : {Undefined, Num(100)}]

\* status and headers of a response; the body comes after them
ResponseHeads == { r \in Responses : r.body = NoBody }

\* fetch resolves (the headers arrived before the timeout): the timer is
\* cleared and the status checked; for a status below 300 the attempt goes
\* on to `await response.json()`
RespondHeaders(response) ==
    /\ pc = "fetch"
    /\ timeoutArmed' = FALSE
    /\ received' = [received |-> TRUE, status |-> response.status,
                    retryAfter |-> response.retryAfter, body |-> NoBody]
    /\ UNCHANGED <<clientVars, adapterVars, libVars, concVars>>
    /\ IF response.status >= 300
       THEN Fail(ResponseError(response.status, response.retryAfter))
       ELSE /\ pc' = "body"
            /\ UNCHANGED <<input, attempts, maxBackoffMs, attempt, currentDelay,
                           lastError, requests, waits, failures, retriable, hinted,
                           result, thrown>>

\* `await response.json()` settles: the body has arrived and is parsed
BodyRead(body) ==
    /\ pc = "body"
    /\ received' = [received EXCEPT !.body = body]
    /\ UNCHANGED <<timeoutArmed, clientVars, adapterVars, libVars, concVars>>
    /\ IF body.json
       THEN Succeed(body)
       ELSE Fail(PlainError("SyntaxError"))

NextLive ==
    \/ \E in \in LiveInputs : CallVerify(in)
    \/ \E response \in ResponseHeads : RespondHeaders(response)
    \/ \E body \in Bodies : BodyRead(body)
    \/ NetworkFailure
    \/ Timeout
    \/ BackoffElapsed
    \/ Settle

\* every timer that is pending fires unless it is cleared: the timeout timer
\* of the attempt in flight, the backoff timer
TimersFire == WF_vars(Timeout) /\ WF_vars(BackoffElapsed)

SpecLive == Init /\ [][NextLive]_vars /\ TimersFire

TypeOK ==
    /\ pc \in {"idle", "fetch", "body", "backoff", "done"}
    /\ attempts \in 1..(MaxAttempts + DefaultAttempts)
    /\ attempt \in 0..attempts
    /\ requests \in 0..attempts

(* ------------------------------ claims --------------------------------- *)

Max(a, b) == IF a > b THEN a ELSE b

\* the attempt budget the caller configured: input.attempts, 5 when not given
ConfiguredAttempts ==
    IF input.attempts.defined /\ input.attempts.value > 0
    THEN input.attempts.value
    ELSE 5

\* the delay before attempt k+1 when no server hint applies: the base delay,
\* doubled after every wait, capped
RECURSIVE NaturalDelay(_, _)
NaturalDelay(k, maxMs) ==
    IF k <= 1 THEN 250 ELSE Min(2 * NaturalDelay(k - 1, maxMs), maxMs)

NonRetriableHTTP(error) ==
    /\ error.class = "HTTPError"
    /\ error.statusCode \notin {408, 425, 429, 500, 502, 503, 504}

RetriableResponse ==
    /\ received.received
    /\ received.status \in {408, 425, 429, 500, 502, 503, 504}

NonRetriableResponse ==
    /\ received.received
    /\ received.status >= 300
    /\ received.status \notin {408, 425, 429, 500, 502, 503, 504}

\* C1: once a request is answered with a status >= 300 outside
\* {408, 425, 429, 500, 502, 503, 504} the call is over: that request stays the
\* last one and no backoff wait follows it, whatever budget remains; once a
\* request is answered with a status in that set and budget remains, a backoff
\* wait is scheduled, and the only step that follows a backoff wait is the
\* next request.
C1_NonRetriableStops ==
    /\ [](NonRetriableResponse =>
            /\ pc = "done"
            /\ thrown.class = "VerificationError"
            /\ Len(waits) = requests - 1)
    /\ []((RetriableResponse /\ requests < ConfiguredAttempts) =>
            /\ pc = "backoff"
            /\ thrown = NotThrown
            /\ Len(waits) = requests)
    /\ [][pc = "backoff" => (pc' = "fetch" /\ requests' = requests + 1)]_vars

\* C1 witness: a 404 on the second of five attempts ended the call
C1_Witness ==
    /\ pc = "done"
    /\ NonRetriableResponse
    /\ received.status = 404
    /\ requests = 2
    /\ ConfiguredAttempts = 5

\* C2: a VerificationError's `attempt` field is the number of requests the
\* call made (1 when the first response is a 400).
C2_AttemptIsRequestsMade ==
    thrown.class = "VerificationError" => thrown.attempt = requests

\* C3: a call all of whose attempts failed with a retriable failure made
\* exactly `attempts` requests (with `attempts - 1` waits between them) and
\* threw a VerificationError with attempt = `attempts` and originalError set.
C3_BudgetExhausted ==
    (pc = "done" /\ requests >= 1 /\ retriable = requests) =>
        /\ requests = ConfiguredAttempts
        /\ Len(waits) = ConfiguredAttempts - 1
        /\ thrown.class = "VerificationError"
        /\ thrown.attempt = ConfiguredAttempts
        /\ thrown.originalError # NoError

\* C3 witness: four attempts, all failed retriably, the last by a network error
C3_Witness ==
    /\ pc = "done"
    /\ input.attempts = Num(4)
    /\ requests = 4
    /\ retriable = 4
    /\ lastError.class = "Error"

\* C4 as stated: a 2xx response ends the call with a result, and no request
\* or wait follows it.
C4_Any2xxEnds ==
    (received.received /\ received.status \in 200..299) =>
        /\ pc = "done"
        /\ result.returned
        /\ Len(waits) = requests - 1

\* C4 amended: the first attempt that receives a 2xx response whose body
\* parses as JSON ends the call with that result: no request and no wait
\* follows it, every earlier attempt failed, and when it is the first attempt
\* the call performed no wait at all.
C4_ParsedSuccessEnds ==
    /\ (received.received /\ received.status \in 200..299 /\ received.body.json) =>
            /\ pc = "done"
            /\ result = [returned |-> TRUE, success |-> received.body.success,
                         code |-> received.body.code]
            /\ thrown = NotThrown
            /\ failures = requests - 1
            /\ Len(waits) = requests - 1
            /\ (requests = 1 => waits = <<>>)
    /\ result.returned =>
            (received.received /\ received.status \in 200..299 /\ received.body.json)

\* C4 witness: the third attempt got a parsed 2xx body reporting success = false
C4_Witness ==
    /\ pc = "done"
    /\ result.returned
    /\ ~result.success
    /\ result.code = 4
    /\ requests = 3
    /\ Len(waits) = 2

\* C5: when the server answers 400, verify fails with an HTTPError (status 400).
C5_ThrowsHTTPError400 ==
    (pc = "done" /\ lastError.class = "HTTPError" /\ lastError.statusCode = 400) =>
        thrown.class = "HTTPError"

CarriesRetryAfter(error) ==
    /\ error.class = "HTTPError"
    /\ error.statusCode = 429
    /\ error.retryAfterSeconds # Null

\* C7: after a 429 carrying retry-after r the wait before the next attempt is
\* max(natural delay, min(r, maxBackoffSeconds) * 1000): never below the
\* natural delay, and within 5000..10000 ms for r = 5, maxBackoffSeconds = 10.
C7_RetryAfterWait ==
    (pc = "backoff" /\ CarriesRetryAfter(lastError)) =>
        LET k == Len(waits)
            r == lastError.retryAfterSeconds[1]
            natural == NaturalDelay(k, maxBackoffMs)
        IN  /\ waits[k] = Max(natural, Min(r * 1000, maxBackoffMs))
            /\ waits[k] >= natural
            /\ (r = 5 /\ maxBackoffMs = 10000) =>
                    (waits[k] >= 5000 /\ waits[k] <= 10000)

\* C7 witness: Retry-After 5 under the default 10 s ceiling lifts the third
\* wait from 1000 ms to 5000 ms
C7_Witness ==
    /\ pc = "backoff"
    /\ CarriesRetryAfter(lastError)
    /\ lastError.retryAfterSeconds = <<5>>
    /\ maxBackoffMs = 10000
    /\ Len(waits) = 3
    /\ waits[3] = 5000

\* C8: every wait between two attempts is at most maxBackoffSeconds * 1000 ms.
C8_WaitsCapped ==
    \A i \in 1..Len(waits) : waits[i] <= maxBackoffMs

\* C9: in a call whose failures carry no retry-after value there is no wait
\* before the first attempt, the first wait is 250 ms, each later wait is
\* min(2 * previous, maxBackoffSeconds * 1000), and the waits never decrease.
C9_NaturalWaits ==
    ~hinted =>
        /\ (pc = "fetch" => Len(waits) = requests - 1)
        /\ (pc = "backoff" => Len(waits) = requests)
        /\ (Len(waits) >= 1 => waits[1] = 250)
        /\ \A i \in 2..Len(waits) :
              /\ waits[i] = Min(2 * waits[i - 1], maxBackoffMs)
              /\ waits[i - 1] <= waits[i]

\* C10: a call with a missing or empty solution fails with a SolutionError
\* and sends no request, waits for nothing and retries nothing, whatever
\* `attempts` is; a call that sends a request has a non-empty solution.
C10_EmptySolutionRejected ==
    /\ (pc = "done" /\ (~input.solution.defined \/ input.solution.value = <<>>)) =>
            /\ thrown.class = "SolutionError"
            /\ ~result.returned
            /\ requests = 0
            /\ waits = <<>>
            /\ failures = 0
    /\ (pc \in {"fetch", "backoff"}) =>
            (input.solution.defined /\ input.solution.value # <<>>)

\* C10 witness: the empty string with a budget of three attempts
C10_Witness ==
    /\ pc = "done"
    /\ input.solution = [defined |-> TRUE, value |-> <<>>]
    /\ input.attempts = Num(3)
    /\ thrown.class = "SolutionError"

\* a createClient call has run
Attempted == client # NoClient

\* C14: constructing a client with an apiKey that is absent, undefined, null
\* or the empty string throws and produces no client; with a non-empty apiKey
\* it produces a client holding that key.
C14_EmptyApiKeyRejected ==
    Attempted =>
        IF config.apiKey.kind = "string" /\ config.apiKey.value # ""
        THEN /\ client.constructed
             /\ client.error = ""
             /\ client.apiKey = config.apiKey.value
        ELSE /\ ~client.constructed
             /\ client.error = "privatecaptcha: API key is empty"
             /\ client.endpoint = ""

\* C14 witness: createClient({ apiKey: null, ... }) threw
C14_Witness ==
    /\ Attempted
    /\ config.apiKey.kind = "null"
    /\ ~client.constructed
    /\ client.error # ""

\* the domain the endpoint is to name: the default when none is given, the
\* scheme prefix and the trailing slash removed
RECURSIVE StripTrailingSlash(_)
StripTrailingSlash(s) ==
    IF Len(s) > 0 /\ SubSeq(s, Len(s), Len(s)) = "/"
    THEN StripTrailingSlash(SubSeq(s, 1, Len(s) - 1))
    ELSE s

NormalizedDomain(domain) ==
    LET given == IF domain.defined /\ domain.value # ""
                 THEN domain.value
                 ELSE "api.privatecaptcha.com"
        bare == IF Len(given) >= 8 /\ SubSeq(given, 1, 8) = "https://"
                THEN SubSeq(given, 9, Len(given))
                ELSE IF Len(given) >= 7 /\ SubSeq(given, 1, 7) = "http://"
                     THEN SubSeq(given, 8, Len(given))
                     ELSE given
    IN  StripTrailingSlash(bare)

\* C15: the endpoint is https://<domain>/verify with the scheme prefix and
\* any trailing slash of the configured domain removed ("http://example.com/"
\* gives "https://example.com/verify").
C15_EndpointNormalized ==
    client.constructed =>
        client.endpoint = "https://" \o NormalizedDomain(config.domain) \o "/verify"

\* the form field the client was configured with: config.formField, the
\* default name when none is given
ConfiguredFormField ==
    IF config.formField.defined /\ config.formField.value # ""
    THEN config.formField.value
    ELSE "private-captcha-solution"

\* the status the client was configured to answer failures with:
\* config.failedStatusCode, 403 when none is given
ConfiguredFailedStatusCode ==
    IF config.failedStatusCode.defined /\ config.failedStatusCode.value # 0
    THEN config.failedStatusCode.value
    ELSE 403

\* the body of the request holds a non-empty value under `field`
FieldGiven(request, field) ==
    /\ request.hasBody
    /\ request.body[field].defined
    /\ request.body[field].value # <<>>

\* C11: verifyRequest on a request without a body, or whose body has no
\* non-empty value under the configured form field (the default field does
\* not count when another one is configured), fails with a SolutionError and
\* sends no request; otherwise the value under the configured field is the
\* solution that is verified.
C11_FieldRequired ==
    (entry \in {"verifyRequest", "middleware"} /\ req.present) =>
        IF FieldGiven(req, ConfiguredFormField)
        THEN /\ input.solution = req.body[ConfiguredFormField]
             /\ requests >= 1
             /\ thrown.class # "SolutionError"
        ELSE /\ pc = "done"
             /\ thrown.class = "SolutionError"
             /\ ~result.returned
             /\ requests = 0
             /\ waits = <<>>

\* C11 witness: a custom field is configured and the solution is present
\* under the default field only
C11_Witness ==
    /\ entry = "verifyRequest"
    /\ ConfiguredFormField = "my-custom-captcha-field"
    /\ req.hasBody
    /\ req.body["private-captcha-solution"].value = <<"a", "s", "d", "f">>
    /\ ~req.body["my-custom-captcha-field"].defined
    /\ thrown.class = "SolutionError"
    /\ requests = 0

\* the middleware function has run to its end
MiddlewareOver == entry = "middleware" /\ mw.state # "pending"

\* C12: the middleware calls next() exactly when verification returned an
\* output with success = true; for an output with success = false it answers
\* with the configured failedStatusCode and verifyCodeToString(output.code);
\* when verification threw it answers with the same status and the error's
\* message.
C12_NextIffSuccess ==
    /\ (entry = "middleware" /\ mw.state = "pending") => (nextCalls = 0 /\ res.sent = 0)
    /\ MiddlewareOver =>
        /\ nextCalls = (IF result.returned /\ result.success THEN 1 ELSE 0)
        /\ (result.returned /\ ~result.success) =>
                /\ res.sent = 1
                /\ res.status = ConfiguredFailedStatusCode
                /\ res.prefix = "Captcha verification failed: "
                /\ res.code = verifyCodeToString(result.code)
        /\ (thrown # NotThrown) =>
                /\ res.sent = 1
                /\ res.status = ConfiguredFailedStatusCode
                /\ res.prefix = "Captcha verification error: "
                /\ res.message = ErrorMessage(thrown)

\* C12 witness: the server reported success = false with code 4 and the
\* middleware answered 400 "solution-bad-format" without calling next()
C12_Witness ==
    /\ MiddlewareOver
    /\ result.returned
    /\ ~result.success
    /\ nextCalls = 0
    /\ res.status = 400
    /\ res.code = "solution-bad-format"

\* C13: the promise of the middleware function never rejects: whatever the
\* request object and whatever verification ended with, a failure has become
\* one response with the configured failedStatusCode.
C13_NeverRejects ==
    /\ mw.state # "rejected"
    /\ (MiddlewareOver /\ ~(result.returned /\ result.success)) =>
            /\ mw.state = "fulfilled"
            /\ res.sent = 1
            /\ res.status = ConfiguredFailedStatusCode

\* C13 witness: the request object was undefined, the TypeError became a 403
C13_Witness ==
    /\ MiddlewareOver
    /\ ~req.present
    /\ thrown.class = "TypeError"
    /\ mw.state = "fulfilled"
    /\ res.sent = 1
    /\ res.status = 403

\* C16: getStatusCode gives (s, true) for an HTTPError with status s and for a
\* VerificationError whose originalError is an HTTPError with status s, and
\* (0, false) for every other error.
C16_StatusCodeUnwrapped ==
    (fnCall.fn = "getStatusCode" /\ fnResult.returned) =>
        LET e == fnCall.error
            got == <<fnResult.statusCode, fnResult.isHTTPError>>
        IN  IF e.class = "HTTPError"
            THEN got = <<e.statusCode, TRUE>>
            ELSE IF e.class = "VerificationError" /\ e.originalError.class = "HTTPError"
                 THEN got = <<e.originalError.statusCode, TRUE>>
                 ELSE got = <<0, FALSE>>

\* C16 witness: a VerificationError wrapping an HTTPError(500) gave (500, true)
C16_Witness ==
    /\ fnCall.fn = "getStatusCode"
    /\ fnCall.error.class = "VerificationError"
    /\ fnCall.error.originalError.class = "HTTPError"
    /\ fnCall.error.originalError.statusCode = 500
    /\ fnResult.returned
    /\ fnResult.statusCode = 500
    /\ fnResult.isHTTPError

\* made of lowercase letters and hyphens only
LowercaseHyphenated(s) ==
    \A i \in 1..Len(s) :
        SubSeq(s, i, i) \in
            {"a", "b", "c", "d", "e", "f", "g", "h", "i", "j", "k", "l", "m", "n",
             "o", "p", "q", "r", "s", "t", "u", "v", "w", "x", "y", "z", "-"}

RECURSIVE Replay(_)
Replay(trace) ==
    IF Len(trace) = 0
    THEN NoFrame
    ELSE Apply(Replay(SubSeq(trace, 1, Len(trace) - 1)), trace[Len(trace)])

C19_ClientUnchanged ==
    [][client.constructed => client' = client]_vars

\* C19 witness: after a middleware call that failed, the client still holds
\* what the constructor gave it
C19_Witness ==
    /\ MiddlewareOver
    /\ res.sent = 1
    /\ config.formField = Str("my-custom-captcha-field")
    /\ client = NewClient(config)
    /\ client.formField = "my-custom-captcha-field"
    /\ client.failedStatusCode = 400
    /\ client.timeoutMs = 1000
    /\ client.logger

\* the last attempt made was ended by the timeout timer
TimedOut ==
    /\ pc # "fetch"
    /\ lastError.message = "Request timeout"
    /\ lastError.raisedAt = requests

\* C20: an attempt that gets no response within timeoutMs is aborted and
\* fails with an error that is no HTTPError and has no status code (no
\* response was received, no timer stays pending); when budget remains the
\* call waits and makes another attempt, otherwise it throws with that error
\* wrapped.
C20_TimeoutRetried ==
    /\ [](TimedOut =>
            /\ lastError.class = "Error"
            /\ getStatusCode(lastError) = <<0, FALSE>>
            /\ lastError.retryAfterSeconds = <<>>
            /\ ~received.received
            /\ ~timeoutArmed
            /\ IF requests < ConfiguredAttempts
               THEN /\ pc = "backoff"
                    /\ thrown = NotThrown
                    /\ Len(waits) = requests
               ELSE /\ pc = "done"
                    /\ thrown.class = "VerificationError"
                    /\ thrown.originalError = lastError)
    /\ [][(pc = "backoff" /\ TimedOut) =>
            (pc' = "fetch" /\ requests' = requests + 1 /\ timeoutArmed')]_vars

\* C20 witness: the second of three attempts timed out and the call waits
\* for the third
C20_Witness ==
    /\ TimedOut
    /\ pc = "backoff"
    /\ requests = 2
    /\ input.attempts = Num(3)
    /\ waits = <<250, 500>>

\* C23: when a 2xx response has a body reporting success = false with code
\* c, verify returns an output with success = false and code = c: the call
\* is over without a further request, without a wait after that response and
\* without an error thrown.
C23_FailureOutputReturned ==
    (received.received /\ received.status \in 200..299
        /\ received.body.json /\ ~received.body.success) =>
            /\ pc = "done"
            /\ result.returned
            /\ ~result.success
            /\ result.code = received.body.code
            /\ thrown = NotThrown
            /\ Len(waits) = requests - 1
            /\ failures = requests - 1

\* C23 witness: the first response reported success = false with code 4
C23_Witness ==
    /\ pc = "done"
    /\ requests = 1
    /\ received.status = 200
    /\ ~received.body.success
    /\ received.body.code = 4
    /\ result = [returned |-> TRUE, success |-> FALSE, code |-> 4]
    /\ waits = <<>>

\* C25: a Retry-After header counts on status 429 only: after a failure with
\* another retriable status whose response carries the header, the error
\* holds no retry-after value and the wait before the next attempt is the
\* natural exponential delay.
C25_RetryAfterOnly429 ==
    (pc = "backoff" /\ received.received /\ received.status # 429
        /\ received.retryAfter.present) =>
            /\ lastError.retryAfterSeconds = Null
            /\ waits[Len(waits)] = NaturalDelay(Len(waits), maxBackoffMs)

\* C25 witness: a 503 with Retry-After: 20 is followed by the 500 ms wait
C25_Witness ==
    /\ pc = "backoff"
    /\ received.status = 503
    /\ received.retryAfter = [present |-> TRUE, numeric |-> TRUE, value |-> 20]
    /\ maxBackoffMs = 10000
    /\ waits = <<250, 500>>

\* C28: the timeout timer of an attempt is cancelled on every way the
\* attempt ends (response, HTTPError, network error, abort): outside of a
\* fetch (during a backoff wait, after the call) no timeout timer is
\* pending, and every request is sent with no timer of an earlier attempt
\* pending.
C28_TimerCancelled ==
    /\ [](pc # "fetch" => ~timeoutArmed)
    /\ [][requests' = requests + 1 => ~timeoutArmed]_vars

\* C28 witness: the second attempt failed in the network; the call waits
\* with no timeout timer pending
C28_Witness ==
    /\ pc = "backoff"
    /\ requests = 2
    /\ lastError.message = "fetch failed"
    /\ lastError.raisedAt = 2
    /\ ~timeoutArmed

\* C29: the wait before attempt k+1 is given by k, maxBackoffSeconds and the
\* error of attempt k alone: the natural delay of that wait, raised to the
\* capped retry-after value when that error is a 429 carrying one; the
\* natural delay itself doubles on every wait, whether or not a wait was
\* raised.
C29_HintOnlyNextWait ==
    /\ pc = "fetch" => currentDelay = NaturalDelay(requests, maxBackoffMs)
    /\ pc = "backoff" =>
        LET k == Len(waits)
            natural == NaturalDelay(k, maxBackoffMs)
        IN  /\ k = requests
            /\ lastError.raisedAt = k
            /\ currentDelay = natural
            /\ waits[k] = IF CarriesRetryAfter(lastError)
                          THEN Max(natural, Min(lastError.retryAfterSeconds[1] * 1000,
                                                maxBackoffMs))
                          ELSE natural

\* C29 witness: a 429 with Retry-After: 5 raised the first wait to 5000 ms;
\* the second wait, after a 503, is the natural 500 ms
C29_Witness ==
    /\ pc = "backoff"
    /\ hinted
    /\ ~CarriesRetryAfter(lastError)
    /\ maxBackoffMs = 10000
    /\ waits = <<5000, 500>>

\* C30: in an invocation of the middleware function, calling next() and
\* sending a failure response exclude each other and exactly one of them
\* happens: next() is called at most once, at most one response is sent, and
\* no response is sent once next() has been called.
C30_NextXorReply ==
    /\ entry = "middleware" =>
            /\ nextCalls <= 1
            /\ res.sent <= 1
            /\ ~(nextCalls >= 1 /\ res.sent >= 1)
    /\ MiddlewareOver => nextCalls + res.sent = 1

\* C21 as stated: one executor attempt raises an HTTPError carrying the
\* status for every response status >= 300 and returns a VerifyOutput for
\* every status in [200, 300).
C21_StatusDecides ==
    (fnCall.fn = "_doVerify" /\ fnResult.returned) =>
        IF fnCall.response.status >= 300
        THEN /\ fnResult.threw
             /\ fnResult.error.class = "HTTPError"
             /\ fnResult.error.statusCode = fnCall.response.status
        ELSE ~fnResult.threw

\* C21 amended: one executor attempt raises an HTTPError carrying the status
\* for every response status >= 300; for a status in [200, 300) it never
\* raises an HTTPError: it returns the VerifyOutput of the body when the body
\* parses as JSON and fails with a non-HTTP error when it does not.
C21_StatusDecidesParsed ==
    (fnCall.fn = "_doVerify" /\ fnResult.returned) =>
        IF fnCall.response.status >= 300
        THEN /\ fnResult.threw
             /\ fnResult.error.class = "HTTPError"
             /\ fnResult.error.statusCode = fnCall.response.status
        ELSE /\ fnResult.error.class # "HTTPError"
             /\ fnResult.threw = ~fnCall.response.body.json
             /\ ~fnResult.threw =>
                    /\ fnResult.output.success = fnCall.response.body.success
                    /\ fnResult.output.code = fnCall.response.body.code

\* C21 witness: a 301 raised an HTTPError with statusCode 301
C21_Witness ==
    /\ fnCall.fn = "_doVerify"
    /\ fnCall.response.status = 301
    /\ fnResult.returned
    /\ fnResult.threw
    /\ fnResult.error.class = "HTTPError"
    /\ fnResult.error.statusCode = 301

\* C22: when the response carries a trace identifier header, every error the
\* executor raises for that response has that identifier attached.
C22_TraceIDAttached ==
    (fnCall.fn = "_doVerify" /\ fnResult.returned /\ fnResult.threw
        /\ fnCall.traceID.defined) =>
            Property(fnResult.error, "traceID") = <<fnCall.traceID.value>>

\* C26: for a 429 whose Retry-After header is an integer n (0 included) the
\* HTTPError raised has retryAfterSeconds = n; for a 429 whose header is
\* absent or no integer, retryAfterSeconds is null.
C26_RetryAfterParsed ==
    (fnCall.fn = "_doVerify" /\ fnResult.returned /\ fnCall.response.status = 429) =>
        LET header == fnCall.response.retryAfter
        IN  /\ fnResult.error.class = "HTTPError"
            /\ fnResult.error.retryAfterSeconds =
                 IF header.present /\ header.numeric THEN <<header.value>> ELSE Null

\* C24: the logger is observability only: the requests a verify call has
\* sent, the waits it has performed and the result or error it ended with
\* are those its input and the responses to its requests give without any
\* logger, whichever logger is configured and whatever that logger does when
\* it is called.
C24_LoggerObservabilityOnly ==
    LET with == frames[1]
        without == Replay(traces[1])
    IN  /\ with.requests = without.requests
        /\ with.waits = without.waits
        /\ with.result = without.result
        /\ with.thrown = without.thrown

\* C27: provided every timer fires, every verify call ends with a result or
\* an error: it sends at most `attempts` requests, performs at most
\* `attempts - 1` backoff waits, and no attempt whose request has been sent
\* stays pending forever.
C27_Terminates ==
    /\ [](requests <= ConfiguredAttempts /\ Len(waits) <= ConfiguredAttempts - 1)
    /\ (pc \in {"fetch", "body", "backoff"}) ~> (pc = "done")

\* the last attempt made got a 2xx response whose body is not JSON
ParseFailed ==
    /\ received.received
    /\ received.status \in 200..299
    /\ ~received.body.json

\* C31: a 2xx response whose body does not parse as JSON makes the attempt
\* fail with a non-HTTP error that verify retries: with budget left the call
\* waits and sends the next request; with none left it throws a
\* VerificationError whose originalError is that parse error and for which
\* getStatusCode gives (0, false).
C31_ParseErrorRetried ==
    /\ [](ParseFailed =>
            /\ lastError.class = "Error"
            /\ lastError.message = "SyntaxError"
            /\ lastError.raisedAt = requests
            /\ getStatusCode(lastError) = <<0, FALSE>>
            /\ ~result.returned
            /\ IF requests < ConfiguredAttempts
               THEN /\ pc = "backoff"
                    /\ thrown = NotThrown
                    /\ Len(waits) = requests
               ELSE /\ pc = "done"
                    /\ thrown.class = "VerificationError"
                    /\ thrown.originalError = lastError
                    /\ getStatusCode(thrown) = <<0, FALSE>>)
    /\ [][(pc = "backoff" /\ ParseFailed) =>
            (pc' = "fetch" /\ requests' = requests + 1)]_vars

\* C31 witness: each of three attempts failed retriably, the last on a 200
\* whose body is not JSON, and the call threw with that parse error wrapped
C31_Witness ==
    /\ pc = "done"
    /\ ParseFailed
    /\ received.status = 200
    /\ input.attempts = Num(3)
    /\ requests = 3
    /\ retriable = 3
    /\ waits = <<250, 500>>
    /\ thrown.class = "VerificationError"
    /\ thrown.originalError.message = "SyntaxError"

====
